---- MODULE Spec2Model ----
(***************************************************************************)
(* Model of src/core/tools.ts: the read-only query toolkit (file           *)
(* enumeration, content scanning, import extraction and the query library  *)
(* built on them).                                                         *)
(*                                                                         *)
(* Text is a sequence of tokens (the alphabet), a path segment is a        *)
(* sequence of tokens, a path is a sequence of segments.  A line of a file *)
(* is a sequence of tokens and a file's content a sequence of lines.       *)
(***************************************************************************)
EXTENDS Integers, Sequences, FiniteSets, TLC

\* ------------------------------------------------------------------ bounds
\* How many entries of the fixture tree may differ from the default tree.
MaxDeviations == 2
\* The largest day threshold passed to findRecentlyModifiedFiles.
MaxDays == 3

\* ------------------------------------------------------------ text helpers
NM == "node_modules"

Range(s) == {s[i] : i \in 1..Len(s)}

NoDup(s) == \A i, j \in 1..Len(s) : s[i] = s[j] => i = j

RECURSIVE Flatten(_)
\* Concatenation of a sequence of sequences.
Flatten(ss) == IF ss = <<>> THEN <<>> ELSE Head(ss) \o Flatten(Tail(ss))

RECURSIVE JoinWith(_, _)
\* Array.join: the elements of ss with the token sep between them.
JoinWith(ss, sep) ==
  IF ss = <<>> THEN <<>>
  ELSE IF Len(ss) = 1 THEN Head(ss)
  ELSE Head(ss) \o <<sep>> \o JoinWith(Tail(ss), sep)

\* String.prototype.includes: pat occurs in text as a contiguous run.
Includes(text, pat) ==
  \E i \in 0..(Len(text) - Len(pat)) : SubSeq(text, i + 1, i + Len(pat)) = pat

\* The tokens whose text starts with a dot.
DotTokens == {".", "..", ".ts", ".js", ".d", ".css", ".scss", ".env"}

\* The tokens \w+ matches.
WordTokens == {"A", "B", "C", "React", "foo", "bar", "s", "t", "x", "a", "b"}

Quotes == {"'", "\""}

\* ------------------------------------------------------------------- paths
RECURSIVE NormalizeOnto(_, _)
\* path.normalize of an absolute path: "." is dropped, ".." removes the
\* segment before it (and is dropped at the root).
NormalizeOnto(done, rest) ==
  IF rest = <<>> THEN done
  ELSE IF Head(rest) = <<".">> THEN NormalizeOnto(done, Tail(rest))
  ELSE IF Head(rest) = <<"..">>
       THEN NormalizeOnto(IF done = <<>> THEN <<>>
                          ELSE SubSeq(done, 1, Len(done) - 1), Tail(rest))
  ELSE NormalizeOnto(Append(done, Head(rest)), Tail(rest))

\* path.resolve(base, p) and path.join(base, p) for an absolute base and a
\* relative p.
PathResolve(base, p) == NormalizeOnto(<<>>, base \o p)

PathJoin(base, p) == NormalizeOnto(<<>>, base \o p)

PathDirname(p) == IF p = <<>> THEN <<>> ELSE SubSeq(p, 1, Len(p) - 1)

RECURSIVE CommonPrefixLen(_, _)
CommonPrefixLen(a, b) ==
  IF a = <<>> \/ b = <<>> \/ Head(a) # Head(b) THEN 0
  ELSE 1 + CommonPrefixLen(Tail(a), Tail(b))

\* path.relative(from, to) for two absolute normalized paths.
PathRelative(from, to) ==
  LET k == CommonPrefixLen(from, to)
  IN [i \in 1..(Len(from) - k) |-> <<"..">>] \o SubSeq(to, k + 1, Len(to))

\* path.extname: the last dot-token of the last segment, "" when there is
\* none or the segment is that token alone.
PathExtname(p) ==
  IF p = <<>> THEN ""
  ELSE LET seg == p[Len(p)]
       IN IF Len(seg) > 1 /\ seg[Len(seg)] \in DotTokens \ {".", ".."}
          THEN seg[Len(seg)] ELSE ""

\* The text of a path: its segments' tokens with "/" between the segments.
PathText(p) == JoinWith(p, "/")

RECURSIVE SplitOnto(_, _, _)
\* The path a text denotes: split at the "/" tokens.
SplitOnto(done, cur, rest) ==
  IF rest = <<>> THEN (IF cur = <<>> THEN done ELSE Append(done, cur))
  ELSE IF Head(rest) = "/"
       THEN SplitOnto(IF cur = <<>> THEN done ELSE Append(done, cur), <<>>, Tail(rest))
  ELSE SplitOnto(done, Append(cur, Head(rest)), Tail(rest))

TextPath(text) == SplitOnto(<<>>, <<>>, text)

\* String.prototype.includes('node_modules') on a path's text: the marker
\* holds no separator, so it lies within one segment.
TextHasNM(text) == \E i \in 1..Len(text) : text[i] = NM

PathHasNM(p) == TextHasNM(PathText(p))

\* String.prototype.startsWith('.').
StartsWithDot(text) == text # <<>> /\ text[1] \in DotTokens

\* ------------------------------------------------------- the fixture tree
P_env   == << <<".env">> >>
P_lib_a == << <<"lib">>, <<"a", ".ts">> >>
P_types == << <<NM>>, <<"@types">>, <<"x">>, <<"index", ".d", ".ts">> >>
P_dts   == << <<NM>>, <<"x">>, <<"index", ".d", ".ts">> >>
P_js    == << <<NM>>, <<"x">>, <<"index", ".js">> >>
P_css   == << <<"src">>, <<"a", ".css">> >>
P_a     == << <<"src">>, <<"a", ".ts">> >>
P_b     == << <<"src">>, <<"b", ".ts">> >>
P_mynm  == << <<"src">>, <<"my_", NM, ".ts">> >>

\* Every file the tree may hold, and every entry (file or directory) a walk
\* of the tree may meet, in the glob engine's (sorted) order.
UniverseSeq == <<P_env, P_lib_a, P_types, P_dts, P_js, P_css, P_a, P_b, P_mynm>>

Universe == Range(UniverseSeq)

WalkSeq ==
  << P_env,
     << <<"lib">> >>, P_lib_a,
     << <<NM>> >>, << <<NM>>, <<"@types">> >>, << <<NM>>, <<"@types">>, <<"x">> >>, P_types,
     << <<NM>>, <<"x">> >>, P_dts, P_js,
     << <<"src">> >>, P_css, P_a, P_b, P_mynm >>

\* What an entry may be other than a readable regular file:
\*   absent   - no such entry
\*   noread   - a regular file whose stat succeeds and whose read fails
\*   dangling - a link to nothing: listed by the directory scan, stat and
\*              read fail with "does not exist"
\*   eacces   - the entry's stat fails with an error other than "does not
\*              exist"
Deviations(p) ==
  CASE p = P_env   -> {"absent"}
    [] p = P_lib_a -> {"absent", "noread"}
    [] p = P_types -> {"absent", "eacces"}
    [] p = P_dts   -> {"absent", "eacces"}
    [] p = P_js    -> {"absent", "eacces"}
    [] p = P_css   -> {"absent"}
    [] p = P_a     -> {"absent", "noread"}
    [] p = P_b     -> {"absent", "noread", "dangling"}
    [] p = P_mynm  -> {"absent"}

Trees ==
  {t \in [Universe -> {"file", "absent", "noread", "dangling", "eacces"}] :
     /\ \A p \in Universe : t[p] = "file" \/ t[p] \in Deviations(p)
     /\ Cardinality({p \in Universe : t[p] # "file"}) <= MaxDeviations}

\* The working directories: one plain, one whose absolute path merely
\* holds the text node_modules.
WorkingDirs == { << <<"home">>, <<"proj">> >>,
                 << <<"home">>, <<NM, "_bak">>, <<"proj">> >> }

L_import(name, q, spec) == <<"import", " ", name, " ", "from", " ", q>> \o spec \o <<q>>

\* The text of each file, line by line.
Content(p) ==
  CASE p = P_a ->
         << L_import("B", "'", <<".", "/", "b">>),
            L_import("React", "\"", <<"react">>),
            L_import("s", "'", <<".", "/", "a", ".css">>),
            <<"class", " ", "A", " ", "extends", " ", "B", " ", "{">>,
            <<"function", " ", "foo", "(">> >>
    [] p = P_b ->
         << <<"class", " ", "B", " ", "{">>,
            <<"import", " ", "{", " ", "x", " ", "}", " ", "from", " ", "'",
              "..", "/", NM, "/", "x", "/", "index", "'">>,
            <<"const", " ", "bar", " ", "=", " ", "(">> >>
    [] p = P_lib_a ->
         << L_import("t", "'", <<"..", "/", NM, "/", "x", "/", "theme", ".css">>),
            L_import("s", "\"", <<"..", "/", "src", "/", "a", ".css">>),
            <<"import", " ", "{", "a", ",", " ", "b", "}", " ", "from", " ", "'",
              "..", "/", "src">>  \o <<"'", ";", " ", "//", " ", "'", "x", "'">>,
            <<"class", " ", "C", " ", "extends", " ", "B">> >>
    [] p = P_mynm ->
         << <<"class", " ", "B", " ", "extends", " ", "A">>,
            <<"let", " ", "foo", " ", "=", " ", "(">> >>
    [] p = P_env -> << <<"foo", "=", "bar">> >>
    [] p = P_css -> << <<".", "a", " ", "{", "}">> >>
    [] p = P_js -> << <<"class", " ", "B">>, <<"function", " ", "foo", "(">> >>
    [] OTHER -> << <<"x">> >>

\* A file's whole text: its lines with a line break between them.
FileText(p) == JoinWith(Content(p), "\n")

DayMs == 1000 * 60 * 60 * 24

T0 == 10 * DayMs

\* The modification time of each file, in milliseconds.
Mtime(p) ==
  CASE p = P_env   -> T0
    [] p = P_lib_a -> T0 - 1
    [] p = P_css   -> T0 - DayMs
    [] p = P_a     -> T0 - DayMs - 1
    [] p = P_b     -> T0 + 2 * DayMs
    [] p = P_mynm  -> T0 - 3 * DayMs
    [] OTHER       -> T0

\* The times at which a query may read the clock.
Clock == {T0, T0 + 1, T0 + DayMs, T0 + 2 * DayMs}

VARIABLES
  fsys,      \* the tree: Universe -> kind of entry
  wd,        \* the working directory (absolute)
  pc,        \* "idle" | "probing" | "done"
  call,      \* the query in progress or last completed
  slots,     \* findExternalDependency: the outcome of each probe
  order,     \* findExternalDependency: the probes in completion order
  outcome,   \* "none" | "returned" | "raised"
  result,    \* the list returned
  logs       \* diagnostics emitted by the query

vars == <<fsys, wd, pc, call, slots, order, outcome, result, logs>>

\* --------------------------------------------------- filesystem primitives
\* The tree entry an absolute path denotes: "dir" for a directory of the
\* tree, "absent" for anything else the tree does not hold.
IsTreeDir(rel) ==
  \E p \in Universe : /\ fsys[p] # "absent"
                      /\ Len(p) > Len(rel)
                      /\ SubSeq(p, 1, Len(rel)) = rel

EntryAt(abs) ==
  IF Len(abs) < Len(wd) \/ SubSeq(abs, 1, Len(wd)) # wd THEN "absent"
  ELSE LET rel == SubSeq(abs, Len(wd) + 1, Len(abs))
       IN IF rel \in Universe THEN fsys[rel]
          ELSE IF IsTreeDir(rel) THEN "dir" ELSE "absent"

\* fs.stat / fs.statSync: "file", "dir", or the error it throws.
Stat(abs) ==
  CASE EntryAt(abs) \in {"file", "noread"} -> "file"
    [] EntryAt(abs) = "dir" -> "dir"
    [] EntryAt(abs) = "eacces" -> "EACCES"
    [] OTHER -> "ENOENT"

StatFails(abs) == Stat(abs) \in {"EACCES", "ENOENT"}

\* fs.promises.readFile succeeds only on a readable regular file.
ReadFails(abs) == EntryAt(abs) # "file"

ReadText(abs) == FileText(SubSeq(abs, Len(wd) + 1, Len(abs)))

ReadLines(abs) == Content(SubSeq(abs, Len(wd) + 1, Len(abs)))

\* ------------------------------------------------------ regular expressions
At(line, k) == IF k \in 1..Len(line) THEN line[k] ELSE ""

\* \s+ or \s* from position k on: the first position holding no blank.
SkipWs(line, k) ==
  IF \E n \in k..Len(line) : line[n] # " "
  THEN CHOOSE n \in k..Len(line) :
         line[n] # " " /\ \A n2 \in k..(n - 1) : line[n2] = " "
  ELSE Len(line) + 1

\* Where  from\s+['"](.+)['"]  matches with "from" at j: the opening quote q
\* and the closing quotes m that leave (.+) at least one token.
OpenQuote(line, j) ==
  IF At(line, j) = "from" /\ At(line, j + 1) = " " /\ At(line, SkipWs(line, j + 1)) \in Quotes
  THEN SkipWs(line, j + 1) ELSE 0

ClosingQuotes(line, q) == {m \in (q + 2)..Len(line) : line[m] \in Quotes}

Max(S) == CHOOSE x \in S : \A y \in S : y <= x

Min(S) == CHOOSE x \in S : \A y \in S : x <= y

\* /import.*from\s+['"](.+)['"]/ on one line ("." matches no line break):
\* the text of group 1, or <<>> when the line does not match.  Both .* and
\* .+ are greedy: the last "from" that can match, up to the last quote.
ImportMatch(line) ==
  LET is == {i \in 1..Len(line) : line[i] = "import"}
      js == {j \in 1..Len(line) :
               /\ \E i \in is : i < j
               /\ OpenQuote(line, j) > 0
               /\ ClosingQuotes(line, OpenQuote(line, j)) # {}}
  IN IF js = {} THEN <<>>
     ELSE LET q == OpenQuote(line, Max(js))
          IN SubSeq(line, q + 1, Max(ClosingQuotes(line, q)) - 1)

StyleExts == {".css", ".scss"}

\* /import.*from\s+['"](.+\.(?:css|scss))['"]/ on one line.
StyleImportMatch(line) ==
  LET is == {i \in 1..Len(line) : line[i] = "import"}
      Ends(q) == {m \in ClosingQuotes(line, q) : m - 1 >= q + 2 /\ line[m - 1] \in StyleExts}
      js == {j \in 1..Len(line) :
               /\ \E i \in is : i < j
               /\ OpenQuote(line, j) > 0
               /\ Ends(OpenQuote(line, j)) # {}}
  IN IF js = {} THEN <<>>
     ELSE LET q == OpenQuote(line, Max(js))
          IN SubSeq(line, q + 1, Max(Ends(q)) - 1)

\* /import\s+{?\s*(\w+)\s*}?\s+from\s+['"](.+)['"]/ on one line: the text
\* of group 2, or <<>>.
RelatedImportMatch(line) ==
  LET FromAt(i) ==
        \* the position "from" must hold for a match starting at i, or 0
        IF At(line, i) # "import" \/ At(line, i + 1) # " " THEN 0
        ELSE LET a == SkipWs(line, i + 1)
                 w == IF At(line, a) = "{" THEN SkipWs(line, a + 1) ELSE a
                 b == SkipWs(line, w + 1)
             IN IF At(line, w) \notin WordTokens THEN 0
                ELSE IF At(line, b) = "}"
                     THEN (IF At(line, b + 1) = " " THEN SkipWs(line, b + 1) ELSE 0)
                ELSE (IF b > w + 1 THEN b ELSE 0)
      ok == {i \in 1..Len(line) :
               /\ FromAt(i) > 0
               /\ OpenQuote(line, FromAt(i)) > 0
               /\ ClosingQuotes(line, OpenQuote(line, FromAt(i))) # {}}
  IN IF ok = {} THEN <<>>
     ELSE LET q == OpenQuote(line, FromAt(Min(ok)))
          IN SubSeq(line, q + 1, Max(ClosingQuotes(line, q)) - 1)

\* /class\s+(\w+)\s+extends\s+(\w+)/ on one line: group 2, or "".
ClassExtendsMatch(line) ==
  LET BaseAt(i) ==
        IF At(line, i) # "class" \/ At(line, i + 1) # " " THEN 0
        ELSE LET a == SkipWs(line, i + 1)
                 e == SkipWs(line, a + 1)
                 w == SkipWs(line, e + 1)
             IN IF /\ At(line, a) \in WordTokens
                   /\ At(line, a + 1) = " "
                   /\ At(line, e) = "extends"
                   /\ At(line, e + 1) = " "
                   /\ At(line, w) \in WordTokens
                THEN w ELSE 0
      ok == {i \in 1..Len(line) : BaseAt(i) > 0}
  IN IF ok = {} THEN "" ELSE line[BaseAt(Min(ok))]

\* The matches of a regular expression over a file's lines, in source
\* order: the loop  while ((match = regex.exec(content)) !== null).
Matched(all) ==
  LET Hit(c) == c # <<>>
  IN SelectSeq(all, Hit)

ImportCaptures(lines) == Matched([i \in 1..Len(lines) |-> ImportMatch(lines[i])])

StyleCaptures(lines) == Matched([i \in 1..Len(lines) |-> StyleImportMatch(lines[i])])

RelatedCaptures(lines) == Matched([i \in 1..Len(lines) |-> RelatedImportMatch(lines[i])])

\* ------------------------------------------------------------ the glob engine
\* The glob patterns the queries use:  **/*,  **/*<ext>  and
\* **/<base>.{ts,tsx,js,jsx}.
CodeExts == {".ts", ".tsx", ".js", ".jsx"}

GlobAll == [k |-> "all", base |-> <<>>, exts |-> {}]

GlobExt(e) == [k |-> "ext", base |-> <<>>, exts |-> {e}]

GlobNamed(base) == [k |-> "named", base |-> base, exts |-> CodeExts]

\* Whether the pattern matches a relative path.  With the default dot:false
\* neither * nor ** matches a segment that starts with a dot.
GlobMatches(pattern, rel) ==
  LET last == rel[Len(rel)]
  IN /\ \A i \in 1..(Len(rel) - 1) : rel[i][1] \notin DotTokens
     /\ CASE pattern.k = "all" -> last[1] \notin DotTokens
          [] pattern.k = "ext" ->
               /\ last[1] \notin DotTokens
               /\ Len(last) > 1
               /\ last[Len(last)] \in pattern.exts
          [] OTHER -> \E e \in pattern.exts : last = pattern.base \o <<e>>

\* ignore: '**/node_modules/**'.
GlobIgnored(rel) == \E i \in 1..Len(rel) : rel[i] = <<NM>>

GlobIsDir(rel) == rel \notin Universe /\ IsTreeDir(rel)

\* glob(pattern, {cwd, absolute: true, nodir: true, ignore}): the entries
\* the walk meets that match, without the directories (nodir) and the
\* ignored subtree, as absolute paths, sorted.
Glob(pattern) ==
  LET Exists(rel) == IF rel \in Universe THEN fsys[rel] # "absent" ELSE IsTreeDir(rel)
      Hit(rel) == /\ Exists(rel)
                  /\ GlobMatches(pattern, rel)
                  /\ ~GlobIgnored(rel)
                  /\ ~GlobIsDir(rel)
      hits == SelectSeq(WalkSeq, Hit)
  IN [i \in 1..Len(hits) |-> wd \o hits[i]]

\* ------------------------------------------------------------- the queries
\* Every query yields  out: "returned" | "raised",  res: the list returned
\* (paths as text),  logs: the diagnostics emitted.
Returned(res, n) == [out |-> "returned", res |-> res, logs |-> n]

Raised(n) == [out |-> "raised", res |-> <<>>, logs |-> n]

ShouldIgnoreFile(text) == TextHasNM(text)

\* shouldExclude throws when its statSync does.
ShouldExcludeThrows(abs) == ~PathHasNM(abs) /\ StatFails(abs)

\* An exclusion that forgets the name test.
ShouldExcludeDirsOnly(abs) == Stat(abs) = "dir"

ShouldExclude(abs) == PathHasNM(abs) \/ Stat(abs) = "dir"

FindFilesByName(pattern) ==
  LET files == Glob(pattern)
      Keep(f) == ~ShouldExclude(f)
      kept == SelectSeq(files, Keep)
  IN IF \E i \in 1..Len(files) : ShouldExcludeThrows(files[i])
     THEN Returned(<<>>, 1)
     ELSE Returned([i \in 1..Len(kept) |-> PathText(PathRelative(wd, kept[i]))], 0)

\* What the loop body of findFilesByContent does with one file:
\* "skip" (continue), "error" (caught and logged), "match" or "nomatch".
ScanOne(file, pattern) ==
  LET fullPath == PathJoin(wd, TextPath(file))
  IN IF ShouldExcludeThrows(fullPath) THEN "error"
     ELSE IF ShouldExclude(fullPath) THEN "skip"
     ELSE IF ReadFails(fullPath) THEN "error"
     ELSE IF Includes(ReadText(fullPath), pattern) THEN "match"
     ELSE "nomatch"

RECURSIVE ScanUntilError(_, _)
\* A scan that stops at the first file it cannot read.
ScanUntilError(files, pattern) ==
  IF files = <<>> \/ ScanOne(Head(files), pattern) = "error" THEN <<>>
  ELSE (IF ScanOne(Head(files), pattern) = "match" THEN <<Head(files)>> ELSE <<>>)
       \o ScanUntilError(Tail(files), pattern)

FindFilesByContentAborting(pattern) ==
  Returned(ScanUntilError(FindFilesByName(GlobAll).res, pattern), 0)

FindFilesByContent(pattern) ==
  LET allFiles == FindFilesByName(GlobAll).res
      Match(f) == ScanOne(f, pattern) = "match"
      errors == {i \in 1..Len(allFiles) : ScanOne(allFiles[i], pattern) = "error"}
  IN Returned(SelectSeq(allFiles, Match), Cardinality(errors))

\* One entry of findImportedFiles for a captured specifier.
ImportEntry(fullPath, importPath) ==
  IF StartsWithDot(importPath)
  THEN PathText(PathRelative(wd, PathResolve(PathDirname(fullPath), TextPath(importPath))))
  ELSE importPath

FindImportedFiles(file) ==
  LET fullPath == PathResolve(wd, TextPath(file))
      caps == ImportCaptures(ReadLines(fullPath))
  IN IF ReadFails(fullPath) THEN Returned(<<>>, 1)
     ELSE Returned([i \in 1..Len(caps) |-> ImportEntry(fullPath, caps[i])], 0)

\* The directory a bare specifier is resolved against by path.relative:
\* the process's current directory.
ProcessCwd == << <<"home">> >>

ResolveImportPath(baseFile, importPath) ==
  IF StartsWithDot(importPath)
  THEN PathResolve(PathDirname(baseFile), TextPath(importPath))
  ELSE PathResolve(ProcessCwd, TextPath(importPath))

\* The style entries one component file contributes.
StyleEntries(fullPath) ==
  LET caps == StyleCaptures(ReadLines(fullPath))
      paths == [i \in 1..Len(caps) |->
                  PathText(PathRelative(wd, ResolveImportPath(fullPath, caps[i])))]
      Keep(t) == ~ShouldIgnoreFile(t)
  IN SelectSeq(paths, Keep)

FindStyleDependencies(component) ==
  LET componentFiles == FindFilesByName(GlobNamed(<<component>>)).res
      full == [i \in 1..Len(componentFiles) |-> PathJoin(wd, TextPath(componentFiles[i]))]
  IN IF \E i \in 1..Len(full) : ReadFails(full[i]) THEN Raised(0)
     ELSE Returned(Flatten([i \in 1..Len(full) |-> StyleEntries(full[i])]), 0)

\* The text of the pattern findFunctionDefinition builds.
FunctionPattern(name) ==
  <<"function", "\\s+", name, "\\s*", "\\(", "|">>
  \o <<"const", "\\s+", name, "\\s*", "=", "\\s*", "\\(", "|">>
  \o <<"let", "\\s+", name, "\\s*", "=", "\\s*", "\\(", "|">>
  \o <<"var", "\\s+", name, "\\s*", "=", "\\s*", "\\(">>

FindFunctionDefinition(functionName) == FindFilesByContent(FunctionPattern(functionName))

FindDependencies(file) ==
  LET fullPath == PathJoin(wd, TextPath(file))
      caps == ImportCaptures(ReadLines(fullPath))
      Keep(t) == ~ShouldIgnoreFile(t)
  IN IF ReadFails(fullPath) THEN Raised(0)
     ELSE Returned(SelectSeq(caps, Keep), 0)

Abs(n) == IF n < 0 THEN -n ELSE n

\* Math.ceil(a / b) for a >= 0, b > 0.
CeilDiv(a, b) == (a + b - 1) \div b

\* A whole-day difference rounded down instead of up.
DiffDaysFloor(now, mtime) == Abs(now - mtime) \div DayMs

DiffDays(now, mtime) == CeilDiv(Abs(now - mtime), DayMs)

FindRecentlyModifiedFiles(days, now) ==
  LET allFiles == FindFilesByName(GlobAll).res
      Seen(f) == ~ShouldIgnoreFile(f)
      seen == SelectSeq(allFiles, Seen)
      Recent(f) == DiffDays(now, Mtime(TextPath(f))) <= days
  IN IF \E i \in 1..Len(seen) : StatFails(PathJoin(wd, TextPath(seen[i]))) THEN Raised(0)
     ELSE Returned(SelectSeq(seen, Recent), 0)

RECURSIVE DedupOnto(_, _)
\* [...new Set(list)]: the first occurrence of each value, in order.
DedupOnto(done, rest) ==
  IF rest = <<>> THEN done
  ELSE DedupOnto(IF Head(rest) \in Range(done) THEN done ELSE Append(done, Head(rest)),
                 Tail(rest))

RECURSIVE SumLogs(_)
SumLogs(rs) == IF rs = <<>> THEN 0 ELSE Head(rs).logs + SumLogs(Tail(rs))

\* One import entry of findRelatedClasses.
RelatedEntry(file, importPath) ==
  LET absolutePath == PathResolve(PathDirname(PathJoin(wd, TextPath(file))), TextPath(importPath))
      relativePath == PathRelative(wd, absolutePath)
  IN PathText(relativePath) \o (IF PathExtname(relativePath) # "" THEN <<>> ELSE <<".ts">>)

FindRelatedClasses(file) ==
  LET fullPath == PathJoin(wd, TextPath(file))
      lines == ReadLines(fullPath)
      caps == RelatedCaptures(lines)
      imports == [i \in 1..Len(caps) |-> RelatedEntry(file, caps[i])]
      bases == LET all == [i \in 1..Len(lines) |-> ClassExtendsMatch(lines[i])]
                   Hit(b) == b # ""
               IN SelectSeq(all, Hit)
      scans == [i \in 1..Len(bases) |-> FindFilesByContent(<<"class", " ", bases[i]>>)]
      nlogs == SumLogs(scans)
  IN IF ReadFails(fullPath) THEN Returned(<<>>, 1)
     ELSE Returned(DedupOnto(<<>>, imports \o Flatten([i \in 1..Len(scans) |-> scans[i].res])),
                   nlogs)

\* The three candidate locations findExternalDependency probes.
PossiblePaths(moduleName) ==
  << PathJoin(wd, << <<NM>>, <<moduleName>>, <<"index", ".d", ".ts">> >>),
     PathJoin(wd, << <<NM>>, <<moduleName>>, <<"index", ".js">> >>),
     PathJoin(wd, << <<NM>>, <<"@types">>, <<moduleName>>, <<"index", ".d", ".ts">> >>) >>

\* The value one probe's promise settles with: the path, or "null".
ProbeValue(p) == IF StatFails(p) THEN "null" ELSE "found"

\* A list collected as the probes complete: it follows completion order.
ExistingInCompletionOrder(moduleName, settled, completion) ==
  LET Found(i) == settled[i] = "found"
      idx == SelectSeq(completion, Found)
  IN [n \in 1..Len(idx) |-> PathText(PathRelative(wd, PossiblePaths(moduleName)[idx[n]]))]

\* The list findExternalDependency returns once every probe has settled:
\* Promise.all keeps the order of the promises it was given.
ExistingPaths(moduleName, settled, completion) ==
  LET Found(i) == settled[i] = "found"
      idx == SelectSeq(<<1, 2, 3>>, Found)
  IN [n \in 1..Len(idx) |-> PathText(PathRelative(wd, PossiblePaths(moduleName)[idx[n]]))]

\* ------------------------------------------------------------ the inputs
NamePatterns == {GlobAll, GlobExt(".ts"), GlobNamed(<<"a">>)}

ContentPatterns == { <<>>, <<"class", " ", "B">>, <<"import">>, <<"foo">>,
                     <<"function", " ", "foo", "(">>, <<"nowhere">> }

FileArgs == { PathText(P_a), PathText(P_b), PathText(P_lib_a),
              <<"src">>, <<"src", "/", "missing", ".ts">> }

Components == {"a", "b", "zz"}

FunctionNames == {"foo", "bar"}

ModuleNames == {"x", "y"}

NoCall == [op |-> "none", arg |-> <<>>, days |-> 0, now |-> 0]

\* ------------------------------------------------------- the state machine
Init ==
  /\ fsys \in Trees
  /\ wd \in WorkingDirs
  /\ pc = "idle"
  /\ call = NoCall
  /\ slots = <<>>
  /\ order = <<>>
  /\ outcome = "none"
  /\ result = <<>>
  /\ logs = 0

\* A query that runs to completion: the caller sees r.
Completes(op, arg, days, now, r) ==
  /\ pc = "idle"
  /\ pc' = "done"
  /\ call' = [op |-> op, arg |-> arg, days |-> days, now |-> now]
  /\ outcome' = r.out
  /\ result' = r.res
  /\ logs' = r.logs
  /\ UNCHANGED <<fsys, wd, slots, order>>

CallFindFilesByName ==
  \E pattern \in NamePatterns :
    Completes("findFilesByName", pattern, 0, 0, FindFilesByName(pattern))

CallFindFilesByContent ==
  \E pattern \in ContentPatterns :
    Completes("findFilesByContent", pattern, 0, 0, FindFilesByContent(pattern))

CallFindImportedFiles ==
  \E file \in FileArgs :
    Completes("findImportedFiles", file, 0, 0, FindImportedFiles(file))

CallFindDependencies ==
  \E file \in FileArgs :
    Completes("findDependencies", file, 0, 0, FindDependencies(file))

CallFindStyleDependencies ==
  \E component \in Components :
    Completes("findStyleDependencies", component, 0, 0, FindStyleDependencies(component))

CallFindFunctionDefinition ==
  \E name \in FunctionNames :
    Completes("findFunctionDefinition", name, 0, 0, FindFunctionDefinition(name))

CallFindRecentlyModifiedFiles ==
  \E days \in 0..MaxDays, now \in Clock :
    Completes("findRecentlyModifiedFiles", <<>>, days, now,
              FindRecentlyModifiedFiles(days, now))

CallFindRelatedClasses ==
  \E file \in FileArgs :
    Completes("findRelatedClasses", file, 0, 0, FindRelatedClasses(file))

\* findExternalDependency issues its three probes at once ...
StartFindExternalDependency ==
  \E moduleName \in ModuleNames :
    /\ pc = "idle"
    /\ pc' = "probing"
    /\ call' = [op |-> "findExternalDependency", arg |-> moduleName, days |-> 0, now |-> 0]
    /\ slots' = <<"pending", "pending", "pending">>
    /\ order' = <<>>
    /\ UNCHANGED <<fsys, wd, outcome, result, logs>>

\* ... each settles when its stat completes, in any order ...
ProbeSettles ==
  \E i \in 1..3 :
    /\ pc = "probing"
    /\ slots[i] = "pending"
    /\ slots' = [slots EXCEPT ![i] = ProbeValue(PossiblePaths(call.arg)[i])]
    /\ order' = Append(order, i)
    /\ logs' = logs + (IF Stat(PossiblePaths(call.arg)[i]) = "EACCES" THEN 1 ELSE 0)
    /\ UNCHANGED <<fsys, wd, pc, call, outcome, result>>

\* ... and the query returns when all three have.
FinishFindExternalDependency ==
  /\ pc = "probing"
  /\ \A i \in 1..3 : slots[i] # "pending"
  /\ pc' = "done"
  /\ outcome' = "returned"
  /\ result' = ExistingPaths(call.arg, slots, order)
  /\ UNCHANGED <<fsys, wd, call, slots, order, logs>>

\* The caller takes the result; the toolkit keeps no state across calls.
Return ==
  /\ pc = "done"
  /\ pc' = "idle"
  /\ call' = NoCall
  /\ slots' = <<>>
  /\ order' = <<>>
  /\ outcome' = "none"
  /\ result' = <<>>
  /\ logs' = 0
  /\ UNCHANGED <<fsys, wd>>

Next ==
  \/ CallFindFilesByName
  \/ CallFindFilesByContent
  \/ CallFindImportedFiles
  \/ CallFindDependencies
  \/ CallFindStyleDependencies
  \/ CallFindFunctionDefinition
  \/ CallFindRecentlyModifiedFiles
  \/ CallFindRelatedClasses
  \/ StartFindExternalDependency
  \/ ProbeSettles
  \/ FinishFindExternalDependency
  \/ Return

Spec == Init /\ [][Next]_vars

\* ---------------------------------------------------------------- claims
Done(op) == pc = "done" /\ call.op = op

AbsOf(text) == PathJoin(wd, TextPath(text))

\* The full scan, as the queries built on it see it.
FullScan == FindFilesByName(GlobAll).res

\* C1: findImportedFiles and findDependencies never raise: on a file that
\* is missing or unreadable each emits a diagnostic and returns the empty list.
C1_NeverRaises ==
  (/\ pc = "done"
   /\ call.op \in {"findImportedFiles", "findDependencies"}
   /\ ReadFails(AbsOf(call.arg)))
  => (outcome = "returned" /\ result = <<>> /\ logs >= 1)

MultiFileOps == {"findFilesByName", "findFilesByContent",
                 "findRecentlyModifiedFiles", "findStyleDependencies"}

\* C2: in a multi-file query a read or stat failure on one file is caught
\* for that file alone: the query does not raise, and every other
\* qualifying file still appears in the result.
C2_PerFileFailureIsolated ==
  /\ (pc = "done" /\ call.op \in MultiFileOps) => outcome = "returned"
  /\ Done("findFilesByName") =>
       \A p \in Universe :
         (/\ fsys[p] \in {"file", "noread"}
          /\ GlobMatches(call.arg, p)
          /\ ~GlobIgnored(p)
          /\ ~PathHasNM(wd \o p))
         => PathText(p) \in Range(result)

\* C3 as stated: no path any query returns holds the text node_modules or
\* denotes a directory.
C3_NoExcludedPathAnywhere ==
  (pc = "done" /\ outcome = "returned")
  => \A i \in 1..Len(result) :
       ~TextHasNM(result[i]) /\ Stat(AbsOf(result[i])) # "dir"

EnumerationOps == {"findFilesByName", "findFilesByContent",
                   "findFunctionDefinition", "findRecentlyModifiedFiles"}

\* C3 as amended: no path returned by the enumeration and content-scan
\* queries holds the text node_modules or denotes a directory, and no entry
\* returned by findStyleDependencies or findDependencies holds that text;
\* every path findExternalDependency returns lies under node_modules.
C3_EnumeratedPathsExcluded ==
  /\ (pc = "done" /\ call.op \in EnumerationOps)
       => \A i \in 1..Len(result) :
            ~TextHasNM(result[i]) /\ Stat(AbsOf(result[i])) # "dir"
  /\ (pc = "done" /\ call.op \in {"findStyleDependencies", "findDependencies"})
       => \A i \in 1..Len(result) : ~TextHasNM(result[i])
  /\ Done("findExternalDependency")
       => \A i \in 1..Len(result) : result[i][1] = NM

\* A full scan that returned files although the tree holds, outside the
\* pruned subtree, a file whose name holds the text node_modules.
C3_Witness ==
  /\ Done("findFilesByName")
  /\ call.arg = GlobAll
  /\ Len(result) >= 3
  /\ fsys[P_mynm] = "file"
  /\ fsys[P_js] = "file"

\* C4: findFilesByContent(p) returns exactly the files of the full scan
\* whose text holds p, each once, in enumeration order; only a file whose
\* read fails is left out.
C4_ContentScanExact ==
  Done("findFilesByContent") =>
    LET Holds(f) == ~ReadFails(AbsOf(f)) /\ Includes(ReadText(AbsOf(f)), call.arg)
    IN /\ outcome = "returned"
       /\ result = SelectSeq(FullScan, Holds)
       /\ NoDup(result)

\* A scan in which one file could not be read and files after it matched.
C4_Witness ==
  /\ Done("findFilesByContent")
  /\ logs >= 1
  /\ Len(result) >= 2
  /\ Len(result) < Len(FullScan) - 1

\* The direct recursive listing of the working directory without the
\* directories and without the node_modules subtree.
DirectListing ==
  {PathText(p) : p \in {q \in Universe : fsys[q] # "absent" /\ ~GlobIgnored(q)}}

\* C5: findFilesByName('**/*') returns the same set as the direct recursive
\* listing minus directories minus the node_modules subtree.
C5_FullScanEqualsListing ==
  (Done("findFilesByName") /\ call.arg = GlobAll) => Range(result) = DirectListing

\* The four declaration shapes of a function named name.
DeclarationShapes(name) ==
  { <<"function", " ", name, "(">>,
    <<"const", " ", name, " ", "=", " ", "(">>,
    <<"let", " ", name, " ", "=", " ", "(">>,
    <<"var", " ", name, " ", "=", " ", "(">> }

\* C6: findFunctionDefinition(name) returns every scanned file whose text
\* holds one of the four declaration shapes of name, and no other file.
C6_FindsDeclarations ==
  Done("findFunctionDefinition") =>
    \A i \in 1..Len(FullScan) :
      ~ReadFails(AbsOf(FullScan[i])) =>
        ((FullScan[i] \in Range(result))
          <=> \E shape \in DeclarationShapes(call.arg) :
                Includes(ReadText(AbsOf(FullScan[i])), shape))

\* The files of the tree a resolved import path refers to: the path itself,
\* or the path with a source extension added to it.
RefersTo(resolved) ==
  {p \in Universe :
     /\ fsys[p] = "file"
     /\ \/ wd \o p = resolved
        \/ /\ resolved # <<>>
           /\ Len(wd \o p) = Len(resolved)
           /\ \E e \in CodeExts :
                wd \o p = [resolved EXCEPT ![Len(resolved)] = @ \o <<e>>]}

\* C7: the entry findImportedFiles returns for a relative specifier that
\* refers to an existing file is that file's path relative to the working
\* directory; entries are in source order and bare specifiers verbatim.
C7_ImportsResolveToExistingFiles ==
  (Done("findImportedFiles") /\ ~ReadFails(AbsOf(call.arg))) =>
    LET fullPath == AbsOf(call.arg)
        caps == ImportCaptures(ReadLines(fullPath))
    IN /\ Len(result) = Len(caps)
       /\ \A i \in 1..Len(caps) :
            IF StartsWithDot(caps[i])
            THEN \A p \in RefersTo(PathResolve(PathDirname(fullPath), TextPath(caps[i]))) :
                   result[i] = PathText(p)
            ELSE result[i] = caps[i]

\* The three candidates of a module, as paths relative to the working
\* directory, in their fixed order.
CandidateTexts(m) ==
  << <<NM, "/", m, "/", "index", ".d", ".ts">>,
     <<NM, "/", m, "/", "index", ".js">>,
     <<NM, "/", "@types", "/", m, "/", "index", ".d", ".ts">> >>

\* C8: whatever the order in which the three probes complete,
\* findExternalDependency returns exactly the candidates that exist, in the
\* fixed candidate order; a candidate whose stat fails is left out and the
\* query does not raise.
C8_ExternalOrderFixed ==
  Done("findExternalDependency") =>
    LET Exists(t) == EntryAt(wd \o TextPath(t)) \in {"file", "noread", "dir"}
    IN /\ outcome = "returned"
       /\ result = SelectSeq(CandidateTexts(call.arg), Exists)

\* The probes completed last to first, two candidates exist and the third
\* one's stat failed with an error other than "does not exist".
C8_Witness ==
  /\ Done("findExternalDependency")
  /\ order = <<3, 2, 1>>
  /\ Len(result) = 2
  /\ logs = 1

\* The whole-day age of the claim: the ceiling of the elapsed time since
\* modification (now - mtime, negative for a time in the future) over 24h.
SignedAge(now, mtime) ==
  IF now >= mtime THEN CeilDiv(now - mtime, DayMs) ELSE -((mtime - now) \div DayMs)

\* C9 as stated: findRecentlyModifiedFiles(N) holds exactly the enumerated
\* files whose whole-day age, the ceiling of the elapsed time since
\* modification over 24h, is at most N.
C9_ElapsedAge ==
  Done("findRecentlyModifiedFiles") =>
    Range(result) =
      {f \in Range(FullScan) : SignedAge(call.now, Mtime(TextPath(f))) <= call.days}

\* C9 as amended: the age is the ceiling of the absolute difference between
\* now and the modification time over 24h, so a file is returned exactly
\* when that difference is at most N days; the result for N is contained in
\* the result for N+1, and the result for N = 0 holds only files modified
\* less than a day from now.
C9_AbsoluteAge ==
  Done("findRecentlyModifiedFiles") =>
    LET Near(f) == Abs(call.now - Mtime(TextPath(f))) <= call.days * DayMs
    IN /\ result = SelectSeq(FullScan, Near)
       /\ Range(result) \subseteq
            Range(FindRecentlyModifiedFiles(call.days + 1, call.now).res)
       /\ call.days = 0 =>
            \A i \in 1..Len(result) :
              Abs(call.now - Mtime(TextPath(result[i]))) < DayMs

\* A scan that kept a file less than a whole day old, left out an older one
\* and left out one modified in the future.
C9_Witness ==
  /\ Done("findRecentlyModifiedFiles")
  /\ call.days = 1
  /\ call.now = T0
  /\ PathText(P_lib_a) \in Range(result)
  /\ PathText(P_a) \in Range(FullScan) \ Range(result)
  /\ PathText(P_b) \in Range(FullScan) \ Range(result)

\* C10: findRelatedClasses returns, without duplicates and in first-seen
\* order, one entry per relative import and then the files a content scan
\* finds for each extended base class; a bare specifier contributes nothing.
C10_BareImportsContributeNothing ==
  (Done("findRelatedClasses") /\ ~ReadFails(AbsOf(call.arg))) =>
    LET lines == ReadLines(AbsOf(call.arg))
        Relative(c) == StartsWithDot(c)
        caps == SelectSeq(RelatedCaptures(lines), Relative)
        imports == [i \in 1..Len(caps) |-> RelatedEntry(call.arg, caps[i])]
        all == [i \in 1..Len(lines) |-> ClassExtendsMatch(lines[i])]
        Hit(b) == b # ""
        bases == SelectSeq(all, Hit)
        scans == Flatten([i \in 1..Len(bases) |->
                            FindFilesByContent(<<"class", " ", bases[i]>>).res])
    IN result = DedupOnto(<<>>, imports \o scans)
====
